------------------------------ MODULE Spec2Model ------------------------------
(***************************************************************************)
(* Model of the circuit solver: the Circuit class of CircuitSolver.h       *)
(* (node registry, component store, clearCircuit), Circuit::solve and      *)
(* Circuit::loadCircuit of CircuitSolver.cpp, and gaussianElimination.     *)
(*                                                                         *)
(* A C++ double is modelled as an exact rational <<num, den>> in lowest    *)
(* terms with den > 0: rounding error is not modelled, the comparisons     *)
(* against EPSILON = 1e-9 are.                                             *)
(***************************************************************************)
EXTENDS Integers, Sequences, FiniteSets, TLC

(***************************************************************************)
(* Exact rational arithmetic standing for double arithmetic.               *)
(***************************************************************************)
IAbs(a) == IF a < 0 THEN -a ELSE a

RECURSIVE GCD(_, _)
GCD(a, b) == IF b = 0 THEN a ELSE GCD(b, a % b)

RNorm(n, d) ==
  IF n = 0 THEN <<0, 1>>
  ELSE LET g == GCD(IAbs(n), d) IN <<n \div g, d \div g>>

Rat(n) == <<n, 1>>
Frac(n, d) == RNorm(n, d)
Zero == <<0, 1>>
One == <<1, 1>>

RNeg(x) == <<-x[1], x[2]>>
RAbs(x) == <<IAbs(x[1]), x[2]>>

RAdd(x, y) ==
  LET g == GCD(x[2], y[2])
  IN  RNorm(x[1] * (y[2] \div g) + y[1] * (x[2] \div g), (x[2] \div g) * y[2])

RSub(x, y) == RAdd(x, RNeg(y))

RMul(x, y) ==
  IF x[1] = 0 \/ y[1] = 0 THEN Zero
  ELSE LET g1 == GCD(IAbs(x[1]), y[2])
           g2 == GCD(IAbs(y[1]), x[2])
       IN  <<(x[1] \div g1) * (y[1] \div g2), (x[2] \div g2) * (y[2] \div g1)>>

\* x / y for y # 0 (the code divides only by a pivot of magnitude >= EPSILON
\* or by a resistance that is not 0).
RDiv(x, y) ==
  RMul(x, IF y[1] < 0 THEN <<-y[2], -y[1]>> ELSE <<y[2], y[1]>>)

\* The sign (-1, 0, 1) of a/b - c/d for a, c >= 0 and b, d > 0, by comparing
\* the integer parts and then the reciprocals of the fractional parts, so that
\* no product is formed.
RECURSIVE CmpPos(_, _, _, _)
CmpPos(a, b, c, d) ==
  IF a \div b # c \div d THEN (IF a \div b < c \div d THEN -1 ELSE 1)
  ELSE IF a % b = 0 /\ c % d = 0 THEN 0
  ELSE IF a % b = 0 THEN -1
  ELSE IF c % d = 0 THEN 1
  ELSE CmpPos(d, c % d, b, a % b)

\* x < y.
RLt(x, y) ==
  IF x[1] < 0 /\ y[1] >= 0 THEN TRUE
  ELSE IF x[1] >= 0 /\ y[1] < 0 THEN FALSE
  ELSE IF x[1] >= 0 THEN CmpPos(x[1], x[2], y[1], y[2]) = -1
  ELSE CmpPos(-y[1], y[2], -x[1], x[2]) = -1

RLe(x, y) == ~RLt(y, x)

(***************************************************************************)
(* gaussianElimination (CircuitSolver.cpp 37-75).  A matrix is a sequence  *)
(* of rows; the code's index i is i+1 here.                                *)
(***************************************************************************)
EpsilonDen == 1000000000
EPSILON == <<1, EpsilonDen>>

\* Faulty variant of PivotRow: no pivoting, the diagonal entry is always the pivot.
PivotRowNoPivoting(A, i) == i

\* Lines 42-49: maxRow after the scan of rows k..n of column i, the running
\* maximum being maxEl at row maxRow; a later row wins only when strictly larger.
RECURSIVE PivotScan(_, _, _, _, _)
PivotScan(A, i, k, maxEl, maxRow) ==
  IF k > Len(A) THEN maxRow
  ELSE IF RLt(maxEl, RAbs(A[k][i]))
       THEN PivotScan(A, i, k + 1, RAbs(A[k][i]), k)
       ELSE PivotScan(A, i, k + 1, maxEl, maxRow)

PivotRow(A, i) == PivotScan(A, i, i + 1, RAbs(A[i][i]), i)

\* std::swap of two entries of a vector (rows of A, entries of B).
SwapEntries(s, a, b) == [s EXCEPT ![a] = s[b], ![b] = s[a]]

\* Lines 50-51: the swap applied to A and to B.
SwapA(A, i) == SwapEntries(A, PivotRow(A, i), i)
SwapB(A, B, i) == SwapEntries(B, PivotRow(A, i), i)

\* Line 53: the pivot test.
IsSingularPivot(A, i) == RLt(RAbs(A[i][i]), EPSILON)

\* Lines 57-63: rows below i lose factor * row i, from column i on.
ElimFactor(A, i, k) == RDiv(A[k][i], A[i][i])

EliminateA(A, i) ==
  [k \in 1..Len(A) |->
     IF k <= i THEN A[k]
     ELSE [j \in 1..Len(A) |->
             IF j < i THEN A[k][j]
             ELSE RSub(A[k][j], RMul(ElimFactor(A, i, k), A[i][j]))]]

EliminateB(A, B, i) ==
  [k \in 1..Len(B) |->
     IF k <= i THEN B[k]
     ELSE RSub(B[k], RMul(ElimFactor(A, i, k), B[i]))]

\* Lines 41-64: the forward pass from column i on; ok is FALSE when line 54 throws.
RECURSIVE Forward(_, _, _)
Forward(A, B, i) ==
  IF i > Len(A) THEN [ok |-> TRUE, A |-> A, B |-> B]
  ELSE LET A1 == SwapA(A, i)
           B1 == SwapB(A, B, i)
       IN  IF IsSingularPivot(A1, i)
           THEN [ok |-> FALSE, A |-> A1, B |-> B1]
           ELSE Forward(EliminateA(A1, i), EliminateB(A1, B1, i), i + 1)

\* Lines 68-71: sum of A[i][j] * x[j] for j = from..n.
RECURSIVE RowSum(_, _, _, _)
RowSum(A, x, i, j) ==
  IF j > Len(A) THEN Zero
  ELSE RAdd(RMul(A[i][j], x[j]), RowSum(A, x, i, j + 1))

\* Lines 66-73: x[i] for i = n down to 1; x holds the entries above i already.
RECURSIVE BackSub(_, _, _, _)
BackSub(A, B, i, x) ==
  IF i < 1 THEN x
  ELSE BackSub(A, B, i - 1,
               [x EXCEPT ![i] = RDiv(RSub(B[i], RowSum(A, x, i, i + 1)), A[i][i])])

\* The whole routine: ok = FALSE stands for the runtime_error of line 54.
GaussianElimination(A, B) ==
  LET f == Forward(A, B, 1)
  IN  IF f.ok
      THEN [ok |-> TRUE, x |-> BackSub(f.A, f.B, Len(A), [i \in 1..Len(A) |-> Zero])]
      ELSE [ok |-> FALSE, x |-> <<>>]

(***************************************************************************)
(* The Circuit object (CircuitSolver.h 112-193) as a record of its fields: *)
(* components, nodeName_to_ID, nodeVoltages, nodeCount.  A component is a  *)
(* record of the Component fields and the value of getType().              *)
(***************************************************************************)
MkCircuit(comps, names, volts, cnt) ==
  [components |-> comps, nodeName_to_ID |-> names,
   nodeVoltages |-> volts, nodeCount |-> cnt]

\* Circuit::Circuit (CircuitSolver.h 128-133).
NewCircuit == MkCircuit(<<>>, ("GND" :> 0) @@ ("0" :> 0), (0 :> Zero), 0)

\* nodeName_to_ID[name] = id on a map (operator[] inserts or overwrites).
MapPut(m, k, v) == [x \in DOMAIN m \cup {k} |-> IF x = k THEN v ELSE m[x]]

\* Faulty variant of GetNodeID: the id is taken before the counter is incremented.
GetNodeIDPostIncrement(c, nodeName) ==
  IF nodeName = ""
  THEN [c |-> c, id |-> -1, err |-> "validation"]
  ELSE IF nodeName \notin DOMAIN c.nodeName_to_ID
       THEN [c   |-> [c EXCEPT !.nodeCount = c.nodeCount + 1,
                               !.nodeName_to_ID =
                                  MapPut(c.nodeName_to_ID, nodeName, c.nodeCount)],
             id  |-> c.nodeCount,
             err |-> "none"]
       ELSE [c |-> c, id |-> c.nodeName_to_ID[nodeName], err |-> "none"]

\* Circuit::getNodeID (CircuitSolver.h 138-149); err is "validation" when it throws.
GetNodeID(c, nodeName) ==
  IF nodeName = ""
  THEN [c |-> c, id |-> -1, err |-> "validation"]
  ELSE IF nodeName \notin DOMAIN c.nodeName_to_ID
       THEN [c   |-> [c EXCEPT !.nodeCount = c.nodeCount + 1,
                               !.nodeName_to_ID =
                                  MapPut(c.nodeName_to_ID, nodeName, c.nodeCount + 1)],
             id  |-> c.nodeCount + 1,
             err |-> "none"]
       ELSE [c |-> c, id |-> c.nodeName_to_ID[nodeName], err |-> "none"]

MkComponent(t, n, nA, nB, v) ==
  [type |-> t, name |-> n, nodeA_ID |-> nA, nodeB_ID |-> nB, value |-> v]

\* Resistor::Resistor (CircuitSolver.h 51-65): TRUE when the constructor throws.
ResistorThrows(nA, nB, r) == RLe(r, Zero) \/ nA = nB

\* CurrentSource::CurrentSource (CircuitSolver.h 79-87).
CurrentSourceThrows(nA, nB, i) == nA = nB

\* VoltageSource::VoltageSource (CircuitSolver.h 95-103).
VoltageSourceThrows(nA, nB, v) == nA = nB

CtorThrows(t, nA, nB, v) ==
  CASE t = "RESISTOR"       -> ResistorThrows(nA, nB, v)
    [] t = "CURRENT_SOURCE" -> CurrentSourceThrows(nA, nB, v)
    [] t = "VOLTAGE_SOURCE" -> VoltageSourceThrows(nA, nB, v)

\* The common body of addResistor, addCurrentSource and addVoltageSource
\* (CircuitSolver.h 151-168): two getNodeID calls in order, then the
\* constructor, then push_back.  An exception leaves what was done before it.
AddComponent(c, t, name, n1, n2, value) ==
  LET r1 == GetNodeID(c, n1)
      r2 == GetNodeID(r1.c, n2)
  IN  IF r1.err # "none" THEN [c |-> r1.c, err |-> r1.err]
      ELSE IF r2.err # "none" THEN [c |-> r2.c, err |-> r2.err]
      ELSE IF CtorThrows(t, r1.id, r2.id, value)
           THEN [c |-> r2.c, err |-> "validation"]
           ELSE [c   |-> [r2.c EXCEPT !.components =
                            Append(@, MkComponent(t, name, r1.id, r2.id, value))],
                 err |-> "none"]

AddResistor(c, name, n1, n2, resistance) ==
  AddComponent(c, "RESISTOR", name, n1, n2, resistance)

AddCurrentSource(c, name, nFrom, nTo, current) ==
  AddComponent(c, "CURRENT_SOURCE", name, nFrom, nTo, current)

AddVoltageSource(c, name, nPos, nNeg, voltage) ==
  AddComponent(c, "VOLTAGE_SOURCE", name, nPos, nNeg, voltage)

\* Faulty variant of ClearCircuit: nodeName_to_ID.clear() is left out, so old
\* names keep their ids while nodeCount restarts at 0.
ClearCircuitKeepingNames(c) ==
  MkCircuit(<<>>, MapPut(c.nodeName_to_ID, "GND", 0), (0 :> Zero), 0)

\* Circuit::clearCircuit (CircuitSolver.h 170-178).
ClearCircuit(c) == MkCircuit(<<>>, ("GND" :> 0), (0 :> Zero), 0)

(***************************************************************************)
(* Circuit::solve (CircuitSolver.cpp 78-138).                              *)
(***************************************************************************)
\* Faulty variant of GroundConnected: only the first endpoint is looked at.
GroundConnectedFirstEndpoint(comps) ==
  \E k \in 1..Len(comps) : comps[k].nodeA_ID = 0

\* Lines 83-89.
GroundConnected(comps) ==
  \E k \in 1..Len(comps) : comps[k].nodeA_ID = 0 \/ comps[k].nodeB_ID = 0

\* Lines 94-95.
VSourceCount(comps) ==
  Cardinality({k \in 1..Len(comps) : comps[k].type = "VOLTAGE_SOURCE"})

\* Resistor::getConductance (CircuitSolver.h 70-73).
GetConductance(value) == IF value = Zero THEN Zero ELSE RDiv(One, value)

MatAdd(A, r, col, v) == [A EXCEPT ![r][col] = RAdd(@, v)]
MatSet(A, r, col, v) == [A EXCEPT ![r][col] = v]

\* Faulty variant of StampResistor: the off-diagonal entries gain g instead of losing it.
StampResistorWrongSign(A, comp) ==
  LET g  == GetConductance(comp.value)
      u  == comp.nodeA_ID
      v  == comp.nodeB_ID
      A1 == IF u # 0 THEN MatAdd(A, u, u, g) ELSE A
      A2 == IF u # 0 /\ v # 0 THEN MatAdd(A1, u, v, g) ELSE A1
      A3 == IF v # 0 THEN MatAdd(A2, v, v, g) ELSE A2
  IN  IF v # 0 /\ u # 0 THEN MatAdd(A3, v, u, g) ELSE A3

\* Lines 105-111: the stamp of a resistor (index id-1 in the code is id here).
StampResistor(A, comp) ==
  LET g  == GetConductance(comp.value)
      u  == comp.nodeA_ID
      v  == comp.nodeB_ID
      A1 == IF u # 0 THEN MatAdd(A, u, u, g) ELSE A
      A2 == IF u # 0 /\ v # 0 THEN MatAdd(A1, u, v, RNeg(g)) ELSE A1
      A3 == IF v # 0 THEN MatAdd(A2, v, v, g) ELSE A2
  IN  IF v # 0 /\ u # 0 THEN MatAdd(A3, v, u, RNeg(g)) ELSE A3

\* Lines 112-117: the stamp of a current source.
StampCurrentSource(B, comp) ==
  LET u  == comp.nodeA_ID
      v  == comp.nodeB_ID
      B1 == IF u # 0 THEN [B EXCEPT ![u] = RSub(@, comp.value)] ELSE B
  IN  IF v # 0 THEN [B1 EXCEPT ![v] = RAdd(@, comp.value)] ELSE B1

\* Lines 118-124: the stamp of a voltage source in row/column rIdx
\* (nodeCount + vSourceIndex in the code, one more here).
StampVoltageSourceA(A, comp, rIdx) ==
  LET p  == comp.nodeA_ID
      n  == comp.nodeB_ID
      A1 == IF p # 0 THEN MatSet(MatSet(A, p, rIdx, One), rIdx, p, One) ELSE A
  IN  IF n # 0 THEN MatSet(MatSet(A1, n, rIdx, RNeg(One)), rIdx, n, RNeg(One)) ELSE A1

\* Lines 104-127: the stamping loop from component k on.
RECURSIVE Stamp(_, _, _, _, _, _)
Stamp(comps, nodeCnt, k, A, B, vSourceIndex) ==
  IF k > Len(comps) THEN [A |-> A, B |-> B]
  ELSE LET comp == comps[k]
           rIdx == nodeCnt + vSourceIndex + 1
       IN  CASE comp.type = "RESISTOR" ->
                  Stamp(comps, nodeCnt, k + 1, StampResistor(A, comp), B, vSourceIndex)
             [] comp.type = "CURRENT_SOURCE" ->
                  Stamp(comps, nodeCnt, k + 1, A, StampCurrentSource(B, comp), vSourceIndex)
             [] comp.type = "VOLTAGE_SOURCE" ->
                  Stamp(comps, nodeCnt, k + 1, StampVoltageSourceA(A, comp, rIdx),
                        [B EXCEPT ![rIdx] = comp.value], vSourceIndex + 1)

\* Faulty variant of Assemble: A starts as the identity matrix instead of zeros.
AssembleFromIdentity(c) ==
  LET matrixSize == c.nodeCount + VSourceCount(c.components)
  IN  Stamp(c.components, c.nodeCount, 1,
            [r \in 1..matrixSize |-> [j \in 1..matrixSize |-> IF r = j THEN One ELSE Zero]],
            [r \in 1..matrixSize |-> Zero], 0)

\* Lines 94-127: the MNA system of the circuit.
Assemble(c) ==
  LET matrixSize == c.nodeCount + VSourceCount(c.components)
  IN  Stamp(c.components, c.nodeCount, 1,
            [r \in 1..matrixSize |-> [j \in 1..matrixSize |-> Zero]],
            [r \in 1..matrixSize |-> Zero], 0)

\* Line 132: nodeVoltages[i + 1] = result[i] for i < nodeCount.
RecordVoltages(volts, nodeCnt, result) ==
  [id \in DOMAIN volts \cup (1..nodeCnt) |->
     IF id \in 1..nodeCnt THEN result[id] ELSE volts[id]]

\* Faulty variant of Solve: a failed elimination resets the solution map.
SolveResettingOnFailure(c) ==
  IF c.nodeCount = 0
  THEN [c |-> c, err |-> "empty", assembled |-> FALSE]
  ELSE IF ~GroundConnected(c.components)
       THEN [c |-> c, err |-> "ground", assembled |-> FALSE]
       ELSE LET sys == Assemble(c)
                res == GaussianElimination(sys.A, sys.B)
            IN  IF res.ok
                THEN [c |-> [c EXCEPT !.nodeVoltages =
                               RecordVoltages(c.nodeVoltages, c.nodeCount, res.x)],
                      err |-> "none", assembled |-> TRUE]
                ELSE [c |-> [c EXCEPT !.nodeVoltages = (0 :> Zero)],
                      err |-> "singular", assembled |-> TRUE]

\* Circuit::solve as a whole: the circuit after the call, the error caught at
\* lines 135-137 ("none" on success), and whether lines 98-127 were reached.
Solve(c) ==
  IF c.nodeCount = 0
  THEN [c |-> c, err |-> "empty", assembled |-> FALSE]
  ELSE IF ~GroundConnected(c.components)
       THEN [c |-> c, err |-> "ground", assembled |-> FALSE]
       ELSE LET sys == Assemble(c)
                res == GaussianElimination(sys.A, sys.B)
            IN  IF res.ok
                THEN [c |-> [c EXCEPT !.nodeVoltages =
                               RecordVoltages(c.nodeVoltages, c.nodeCount, res.x)],
                      err |-> "none", assembled |-> TRUE]
                ELSE [c |-> c, err |-> "singular", assembled |-> TRUE]

(***************************************************************************)
(* Circuit::loadCircuit (CircuitSolver.cpp 141-176).  A file is a sequence *)
(* of lines, a line the sequence of its whitespace-separated tokens (the   *)
(* empty sequence is the empty line).                                      *)
(***************************************************************************)
\* operator>>(double&) on the tokens used here; any other token fails to parse.
NumericTokens == ("0" :> Rat(0)) @@ ("1" :> Rat(1)) @@ ("2" :> Rat(2)) @@ ("-5" :> Rat(-5))

\* Line 159: ss >> type >> name >> n1 >> n2 >> val succeeds.
ParseOk(line) == Len(line) >= 5 /\ line[5] \in DOMAIN NumericTokens

\* Lines 148-151: clearCircuit, then the three ground spellings.
LoadReset(c) ==
  LET c0 == ClearCircuit(c)
  IN  [c0 EXCEPT !.nodeName_to_ID =
         MapPut(MapPut(MapPut(@, "0", 0), "GND", 0), "gnd", 0)]

\* Lines 157-168: one iteration of the loop.  outcome is "skip" (continue),
\* "added" (count++) or "throw" (an add* call threw: control leaves the loop).
LoadLine(c, line) ==
  IF line = <<>> THEN [c |-> c, outcome |-> "skip"]
  ELSE IF ~ParseOk(line) THEN [c |-> c, outcome |-> "skip"]
  ELSE LET type == line[1]
           val  == NumericTokens[line[5]]
           r    == CASE type \in {"R", "r"} -> AddResistor(c, line[2], line[3], line[4], val)
                     [] type \in {"I", "i"} -> AddCurrentSource(c, line[2], line[3], line[4], val)
                     [] type \in {"V", "v"} -> AddVoltageSource(c, line[2], line[3], line[4], val)
                     [] OTHER -> [c |-> c, err |-> "unknown"]
       IN  IF r.err = "unknown" THEN [c |-> c, outcome |-> "skip"]
           ELSE IF r.err = "none" THEN [c |-> r.c, outcome |-> "added"]
           ELSE [c |-> r.c, outcome |-> "throw"]

(***************************************************************************)
(* Bounds and input sets of the model.                                     *)
(***************************************************************************)
MaxComponents == 2
MaxNodes == 2
MaxLines == 2

NodeNames == {"", "0", "GND", "gnd", "A", "B"}
CompName == "X1"
ResistanceValues == {Rat(-5), Rat(0), Rat(1)}
SourceValues == {Rat(2)}

FileLines ==
  { <<>>,
    <<"R", "R1", "A">>,
    <<"R", "R1", "A", "0", "abc">>,
    <<"X", "X1", "A", "0", "1">>,
    <<"R", "R1", "A", "0", "0">>,
    <<"V", "V1", "GND", "gnd", "1">>,
    <<"R", "R1", "A", "0", "2">>,
    <<"v", "V1", "A", "gnd", "1">>,
    <<"i", "I1", "0", "B", "1">> }

(***************************************************************************)
(* State.                                                                  *)
(***************************************************************************)
VARIABLES
  components,      \* Circuit::components
  nodeName_to_ID,  \* Circuit::nodeName_to_ID
  nodeVoltages,    \* Circuit::nodeVoltages
  nodeCount,       \* Circuit::nodeCount
  pc,              \* "idle", or "loading" inside the loop of loadCircuit
  inFile,          \* loadCircuit's stream: the lines read and their number
  count,           \* loadCircuit's local count
  last,            \* the last call completed: its name, arguments and outcome
  geIn, geA, geB, geI, gePc, geX,   \* one run of gaussianElimination
  dvIn, dvStep                      \* the voltage-divider scenario

circuitVars == <<components, nodeName_to_ID, nodeVoltages, nodeCount>>
loadVars == <<pc, inFile, count>>
geVars == <<geIn, geA, geB, geI, gePc, geX>>
dvVars == <<dvIn, dvStep>>
vars == <<components, nodeName_to_ID, nodeVoltages, nodeCount, pc, inFile, count,
          last, geIn, geA, geB, geI, gePc, geX, dvIn, dvStep>>

\* The Circuit object as one record, and its assignment from a record.
Circ == MkCircuit(components, nodeName_to_ID, nodeVoltages, nodeCount)

SetCirc(circuit) ==
  LET c == circuit
  IN  /\ components' = c.components
      /\ nodeName_to_ID' = c.nodeName_to_ID
      /\ nodeVoltages' = c.nodeVoltages
      /\ nodeCount' = c.nodeCount

Call(op, args, err, ret, assembled) ==
  [op |-> op, args |-> args, err |-> err, ret |-> ret, assembled |-> assembled]

ClosedFile == [lines |-> <<>>, pos |-> 0]

CircIs(c) ==
  /\ components = c.components
  /\ nodeName_to_ID = c.nodeName_to_ID
  /\ nodeVoltages = c.nodeVoltages
  /\ nodeCount = c.nodeCount

NoCall == Call("none", <<>>, "none", 0, FALSE)

\* The variables of the other specifications, at rest.
GeAtRest ==
  /\ geIn = [A |-> <<>>, B |-> <<>>]
  /\ geA = <<>> /\ geB = <<>> /\ geI = 0 /\ gePc = "rest" /\ geX = <<>>

DvAtRest == dvIn = <<>> /\ dvStep = 0

\* A Circuit just constructed, nothing called yet.
Init ==
  /\ CircIs(NewCircuit)
  /\ pc = "idle" /\ inFile = ClosedFile /\ count = 0
  /\ last = NoCall
  /\ GeAtRest /\ DvAtRest

(***************************************************************************)
(* The public operations of Circuit, called by a client such as main().    *)
(***************************************************************************)
getNodeID(nodeName) ==
  /\ pc = "idle"
  /\ LET r == GetNodeID(Circ, nodeName)
     IN  /\ r.c.nodeCount <= MaxNodes
         /\ SetCirc(r.c)
         /\ last' = Call("getNodeID", <<nodeName>>, r.err, r.id, FALSE)
  /\ UNCHANGED <<loadVars, geVars, dvVars>>

AddCall(op, result) ==
  /\ pc = "idle"
  /\ LET r == result
     IN  /\ Len(r.c.components) <= MaxComponents
         /\ r.c.nodeCount <= MaxNodes
         /\ SetCirc(r.c)
         /\ last' = Call(op, <<>>, r.err, 0, FALSE)
  /\ UNCHANGED <<loadVars, geVars, dvVars>>

addResistor(n1, n2, resistance) ==
  AddCall("addResistor", AddResistor(Circ, CompName, n1, n2, resistance))

addCurrentSource(nFrom, nTo, current) ==
  AddCall("addCurrentSource", AddCurrentSource(Circ, CompName, nFrom, nTo, current))

addVoltageSource(nPos, nNeg, voltage) ==
  AddCall("addVoltageSource", AddVoltageSource(Circ, CompName, nPos, nNeg, voltage))

clearCircuit ==
  /\ pc = "idle"
  /\ SetCirc(ClearCircuit(Circ))
  /\ last' = Call("clearCircuit", <<>>, "none", 0, FALSE)
  /\ UNCHANGED <<loadVars, geVars, dvVars>>

solve ==
  /\ pc = "idle"
  /\ LET r == Solve(Circ)
     IN  /\ SetCirc(r.c)
         /\ last' = Call("solve", <<>>, r.err, 0, r.assembled)
  /\ UNCHANGED <<loadVars, geVars, dvVars>>

\* loadCircuit, lines 142-146: the file cannot be opened.
loadCircuitNoFile ==
  /\ pc = "idle"
  /\ last' = Call("loadCircuit", <<>>, "file", 0, FALSE)
  /\ UNCHANGED <<circuitVars, loadVars, geVars, dvVars>>

\* loadCircuit, lines 142-155: the file opens; reset, seed, enter the loop.
\* inFile.lines are the lines getline has returned so far.
loadCircuitBegin ==
  /\ pc = "idle"
  /\ SetCirc(LoadReset(Circ))
  /\ pc' = "loading"
  /\ inFile' = [lines |-> <<>>, pos |-> 0]
  /\ count' = 0
  /\ last' = Call("loadCircuit", <<>>, "running", 0, FALSE)
  /\ UNCHANGED <<geVars, dvVars>>

\* loadCircuit, lines 156-169 and 171-175: getline returns the next line of
\* the file and the loop body handles it; an add* that throws ends the call
\* through the catch block.
loadCircuitLine(line) ==
  /\ pc = "loading"
  /\ inFile.pos < MaxLines
  /\ LET r    == LoadLine(Circ, line)
         read == Append(inFile.lines, line)
     IN  IF r.outcome = "throw"
         THEN /\ SetCirc(ClearCircuit(r.c))
              /\ pc' = "idle"
              /\ inFile' = ClosedFile
              /\ count' = 0
              /\ last' = Call("loadCircuit", read, "validation", count, FALSE)
         ELSE /\ SetCirc(r.c)
              /\ inFile' = [lines |-> read, pos |-> inFile.pos + 1]
              /\ count' = IF r.outcome = "added" THEN count + 1 ELSE count
              /\ UNCHANGED <<pc, last>>
  /\ UNCHANGED <<geVars, dvVars>>

\* loadCircuit, lines 156 and 170-176: getline fails at the end of the file.
loadCircuitEnd ==
  /\ pc = "loading"
  /\ pc' = "idle"
  /\ inFile' = ClosedFile
  /\ count' = 0
  /\ last' = Call("loadCircuit", inFile.lines, "none", count, FALSE)
  /\ UNCHANGED <<circuitVars, geVars, dvVars>>

Next ==
  \/ \E n \in NodeNames : getNodeID(n)
  \/ \E n1, n2 \in NodeNames : \E r \in ResistanceValues : addResistor(n1, n2, r)
  \/ \E n1, n2 \in NodeNames : \E i \in SourceValues : addCurrentSource(n1, n2, i)
  \/ \E n1, n2 \in NodeNames : \E v \in SourceValues : addVoltageSource(n1, n2, v)
  \/ clearCircuit
  \/ solve
  \/ loadCircuitNoFile
  \/ loadCircuitBegin
  \/ \E line \in FileLines : loadCircuitLine(line)
  \/ loadCircuitEnd

Spec == Init /\ [][Next]_vars

(***************************************************************************)
(* Properties of the Circuit operations, checked under Spec.               *)
(***************************************************************************)
AddOps == {"addResistor", "addCurrentSource", "addVoltageSource"}
GroundSpellings == {"0", "GND", "gnd"}

\* Some component has an endpoint with id 0.
TouchesGround == \E k \in 1..Len(components) : 0 \in {components[k].nodeA_ID, components[k].nodeB_ID}

\* Node id is an endpoint of some component whose type is in types.
Touched(id, types) ==
  \E k \in 1..Len(components) :
    /\ components[k].type \in types
    /\ id \in {components[k].nodeA_ID, components[k].nodeB_ID}

\* The step just taken is a completed call of op.
Returned(op) == pc = "idle" /\ pc' = "idle" /\ last'.op = op

\* C1: an add* call that fails with a validation error leaves components,
\* the name->id map, the solution map and nodeCount exactly as they were.
C1_FailedAddLeavesCircuitUnchanged ==
  [][(\E op \in AddOps : Returned(op)) /\ last'.err = "validation"
       => UNCHANGED circuitVars]_vars

\* C2: on a freshly constructed Circuit, getNodeID of "0", "GND" or "gnd"
\* returns 0 and leaves nodeCount at 0 (so the circuit stays as constructed
\* however often and in whatever order the three are resolved).
C2_GroundSpellingsResolveToZero ==
  [][CircIs(NewCircuit) /\ Returned("getNodeID") /\ last'.args[1] \in GroundSpellings
       => last'.ret = 0 /\ nodeCount' = 0]_vars

\* C3: right after clearCircuit the component list is empty, nodeCount is 0,
\* the solution map holds only ground at 0.0, each of "0", "GND", "gnd"
\* resolves to 0 without changing the circuit, and a resistor then added
\* from "A" to "0" has its second endpoint at ground.
C3_ClearReseedsGround ==
  last.op = "clearCircuit" =>
    /\ components = <<>>
    /\ nodeCount = 0
    /\ nodeVoltages = (0 :> Zero)
    /\ \A n \in GroundSpellings :
         GetNodeID(Circ, n).id = 0 /\ GetNodeID(Circ, n).c = Circ
    /\ AddResistor(Circ, CompName, "A", "0", One).c.components[1].nodeB_ID = 0

\* C4: a solve() that fails (empty, no ground reference, singular) returns
\* to the caller and leaves components, name->id map, nodeCount and the
\* solution map unchanged.
C4_FailedSolveLeavesCircuitUnchanged ==
  [][Returned("solve") /\ last'.err # "none" => UNCHANGED circuitVars]_vars

\* C4 witness: a solve failed as singular while voltages of an earlier
\* successful solve are recorded.
C4_Witness ==
  /\ last.op = "solve" /\ last.err = "singular"
  /\ \E id \in DOMAIN nodeVoltages : id # 0 /\ nodeVoltages[id] # Zero

\* C5 as claimed: whenever a registered non-ground node is touched by no
\* resistor and the pre-checks pass, solve() fails as singular and records
\* no new voltages.
C5_NoConductancePathIsSingular ==
  [][/\ Returned("solve")
     /\ nodeCount > 0 /\ TouchesGround
     /\ \E id \in 1..nodeCount : ~Touched(id, {"RESISTOR"})
     => last'.err = "singular" /\ nodeVoltages' = nodeVoltages]_vars

\* C5 as amended: whenever a registered non-ground node is touched by no
\* resistor and by no voltage source (only by current sources, or by no
\* component at all) and the pre-checks pass, solve() fails as singular and
\* records no new voltages.
C5_FloatingNodeIsSingular ==
  [][/\ Returned("solve")
     /\ nodeCount > 0 /\ TouchesGround
     /\ \E id \in 1..nodeCount : ~Touched(id, {"RESISTOR", "VOLTAGE_SOURCE"})
     => last'.err = "singular" /\ nodeVoltages' = nodeVoltages]_vars

\* C5 witness: a solve that passed the pre-checks failed as singular with a
\* node touched only by a current source and a node touched by nothing.
C5_Witness ==
  /\ last.op = "solve" /\ last.err = "singular" /\ TouchesGround
  /\ \E id \in 1..nodeCount :
       Touched(id, {"CURRENT_SOURCE"}) /\ ~Touched(id, {"RESISTOR", "VOLTAGE_SOURCE"})
  /\ \E id \in 1..nodeCount :
       ~Touched(id, {"RESISTOR", "CURRENT_SOURCE", "VOLTAGE_SOURCE"})

\* C6: with nodeCount > 0 and no component endpoint at id 0, solve() fails
\* with the ground-reference error before the matrix is assembled and records
\* no voltages; with some endpoint at id 0 that error is never reported.
C6_GroundReferenceCheck ==
  [][Returned("solve") =>
       /\ (nodeCount > 0 /\ ~TouchesGround =>
             last'.err = "ground" /\ ~last'.assembled /\ nodeVoltages' = nodeVoltages)
       /\ (TouchesGround => last'.err # "ground")]_vars

\* C6 witness: a solve reported the ground-reference error on a circuit
\* that has components.
C6_Witness ==
  last.op = "solve" /\ last.err = "ground" /\ nodeCount > 0 /\ components # <<>>

\* The names that do not resolve to ground.
NonGroundNames == {n \in DOMAIN nodeName_to_ID : nodeName_to_ID[n] # 0}

\* The names mapped to a non-zero id and the ids 1..nodeCount correspond
\* one to one.
NonGroundBijection ==
  /\ {nodeName_to_ID[n] : n \in NonGroundNames} = 1..nodeCount
  /\ \A n, m \in NonGroundNames : nodeName_to_ID[n] = nodeName_to_ID[m] => n = m

\* A call that is not a reset keeps every known name's id and gives the new
\* names the next ids; getNodeID of a known name returns its id and changes
\* nothing, of a new name returns nodeCount + 1.
FirstSeenOrder ==
  /\ last'.op \notin {"clearCircuit", "loadCircuit"} =>
       /\ \A n \in DOMAIN nodeName_to_ID :
            n \in DOMAIN nodeName_to_ID' /\ nodeName_to_ID'[n] = nodeName_to_ID[n]
       /\ {nodeName_to_ID'[n] : n \in DOMAIN nodeName_to_ID' \ DOMAIN nodeName_to_ID}
            = (nodeCount + 1)..nodeCount'
  /\ Returned("getNodeID") /\ last'.err = "none" =>
       IF last'.args[1] \in DOMAIN nodeName_to_ID
       THEN last'.ret = nodeName_to_ID[last'.args[1]] /\ UNCHANGED circuitVars
       ELSE last'.ret = nodeCount + 1 /\ nodeCount' = nodeCount + 1

\* C7: in every reachable state the names mapped to a non-zero id are in
\* one-to-one correspondence with 1..nodeCount; ids are handed out in
\* first-seen order (a new name gets nodeCount + 1, known names keep their
\* ids); getNodeID of a known name returns its id and changes nothing.
C7_NodeIdsStable == [](NonGroundBijection) /\ [][FirstSeenOrder]_vars

\* C7 witness: "A" then "B" then "A" resolved on a fresh registry: 1, 2, 1.
C7_Witness ==
  /\ DOMAIN nodeName_to_ID = {"GND", "0", "A", "B"}
  /\ nodeName_to_ID["A"] = 1 /\ nodeName_to_ID["B"] = 2
  /\ last = Call("getNodeID", <<"A">>, "none", 1, FALSE)
  /\ components = <<>>

\* A line that loadCircuit can turn into a component when it is met.
ValidRecord(line) == LoadLine(LoadReset(NewCircuit), line).outcome = "added"

\* The record of a valid line is among the components.
Present(line) ==
  \E k \in 1..Len(components) :
    /\ components[k].name = line[2]
    /\ components[k].value = NumericTokens[line[5]]
    /\ line[3] \in DOMAIN nodeName_to_ID /\ components[k].nodeA_ID = nodeName_to_ID[line[3]]
    /\ line[4] \in DOMAIN nodeName_to_ID /\ components[k].nodeB_ID = nodeName_to_ID[line[4]]

\* C10: when loadCircuit returns from a file it could open, every valid
\* record among the lines of the file is in the circuit, whatever other
\* lines the file holds.
C10_BadLinesAreSkipped ==
  pc = "idle" /\ last.op = "loadCircuit" /\ last.err # "file" =>
    \A i \in 1..Len(last.args) : ValidRecord(last.args[i]) => Present(last.args[i])

\* The 0-based row and column indices lines 104-127 use on A and B for
\* the components from k on: id-1 for each endpoint that is not ground
\* (lines 108-109, 115-116, 121-122) and rIdx = nodeCount + vSourceIndex for
\* each voltage source (lines 120-123).
RECURSIVE StampIndices(_, _, _, _)
StampIndices(comps, nodeCnt, k, vSourceIndex) ==
  IF k > Len(comps) THEN {}
  ELSE LET comp == comps[k]
           ends == {id - 1 : id \in {comp.nodeA_ID, comp.nodeB_ID} \ {0}}
       IN  IF comp.type = "VOLTAGE_SOURCE"
           THEN ends \cup {nodeCnt + vSourceIndex}
                     \cup StampIndices(comps, nodeCnt, k + 1, vSourceIndex + 1)
           ELSE ends \cup StampIndices(comps, nodeCnt, k + 1, vSourceIndex)

\* Every stored component has two different endpoint ids within 0..nodeCount.
EndpointsInRange ==
  \A k \in 1..Len(components) :
    /\ components[k].nodeA_ID # components[k].nodeB_ID
    /\ components[k].nodeA_ID \in 0..nodeCount
    /\ components[k].nodeB_ID \in 0..nodeCount

\* C11: in every reachable state every stored component has two different
\* endpoint ids, both within 0..nodeCount; every index the stamping loop of
\* solve() uses lies within 0..matrixSize-1; and every key of the solution
\* map lies within 0..nodeCount.
C11_IndicesInRange ==
  /\ EndpointsInRange
  /\ LET matrixSize == nodeCount + VSourceCount(components)
     IN  StampIndices(components, nodeCount, 1, 0) \subseteq 0..(matrixSize - 1)
  /\ DOMAIN nodeVoltages \subseteq 0..nodeCount

\* C11 witness: a solve has stamped and solved a circuit of two non-ground
\* nodes holding a voltage source, so the last row of the system and the
\* highest key of the solution map are both in use.
C11_Witness ==
  /\ last.op = "solve" /\ last.err = "none" /\ last.assembled
  /\ nodeCount = MaxNodes
  /\ \E k \in 1..Len(components) : components[k].type = "VOLTAGE_SOURCE"
  /\ nodeCount + VSourceCount(components) - 1 \in StampIndices(components, nodeCount, 1, 0)
  /\ DOMAIN nodeVoltages = 0..nodeCount

(***************************************************************************)
(* gaussianElimination run on its own, one loop iteration at a time:       *)
(* SpecGE.  geIn is the pair passed in, geA and geB the local copies the   *)
(* routine works on, geI its column i (one more than the code's).          *)
(***************************************************************************)
GeMaxDim == 3

GeEntries(n) == IF n <= 2 THEN {Rat(-1), Rat(0), Rat(1), Rat(2)} ELSE {Rat(0), Rat(1)}
GeRhs(n) ==
  IF n <= 2 THEN {Rat(0), Rat(2), Rat(3)} ELSE IF n = 3 THEN {Rat(2), Rat(3)} ELSE {Rat(2)}

\* An entry below EPSILON that is not zero: 2^-30.
Tiny == Frac(1, 1073741824)

GeSmallPivotInputs ==
  { [A |-> <<<<Tiny>>>>, B |-> <<One>>],
    [A |-> <<<<One, Zero>>, <<Zero, Tiny>>>>, B |-> <<One, One>>],
    [A |-> <<<<Tiny, One>>, <<One, One>>>>, B |-> <<One, One>>] }

GeInputs ==
  GeSmallPivotInputs \cup
  UNION { [A : [1..n -> [1..n -> GeEntries(n)]], B : [1..n -> GeRhs(n)]] : n \in 1..GeMaxDim }

CircuitAtRest ==
  /\ CircIs(NewCircuit)
  /\ pc = "idle" /\ inFile = ClosedFile /\ count = 0
  /\ last = NoCall

InitGE ==
  /\ CircuitAtRest /\ DvAtRest
  /\ geIn \in GeInputs
  /\ geA = geIn.A /\ geB = geIn.B
  /\ geI = 1 /\ gePc = "pivot" /\ geX = <<>>

\* Lines 41-51: choose the pivot row of column geI and swap it into place.
gePivot ==
  /\ gePc = "pivot" /\ geI <= Len(geA)
  /\ geA' = SwapA(geA, geI)
  /\ geB' = SwapB(geA, geB, geI)
  /\ gePc' = "check"
  /\ UNCHANGED <<geIn, geI, geX, circuitVars, loadVars, last, dvVars>>

\* Lines 53-55: throw when the pivot is below EPSILON.
geCheck ==
  /\ gePc = "check"
  /\ gePc' = IF IsSingularPivot(geA, geI) THEN "thrown" ELSE "eliminate"
  /\ UNCHANGED <<geIn, geA, geB, geI, geX, circuitVars, loadVars, last, dvVars>>

\* Lines 57-64: eliminate column geI below the pivot; next column.
geEliminate ==
  /\ gePc = "eliminate"
  /\ geA' = EliminateA(geA, geI)
  /\ geB' = EliminateB(geA, geB, geI)
  /\ geI' = geI + 1
  /\ gePc' = "pivot"
  /\ UNCHANGED <<geIn, geX, circuitVars, loadVars, last, dvVars>>

\* Lines 66-74: back substitution and return.
geBackSubstitute ==
  /\ gePc = "pivot" /\ geI > Len(geA)
  /\ geX' = BackSub(geA, geB, Len(geA), [i \in 1..Len(geA) |-> Zero])
  /\ gePc' = "done"
  /\ UNCHANGED <<geIn, geA, geB, geI, circuitVars, loadVars, last, dvVars>>

NextGE == gePivot \/ geCheck \/ geEliminate \/ geBackSubstitute

SpecGE == InitGE /\ [][NextGE]_vars

(***************************************************************************)
(* Properties of gaussianElimination, checked under SpecGE.                *)
(***************************************************************************)
RECURSIVE DotFrom(_, _, _)
DotFrom(row, x, j) ==
  IF j > Len(row) THEN Zero ELSE RAdd(RMul(row[j], x[j]), DotFrom(row, x, j + 1))

\* A * x = B.
IsSolution(A, x, B) == \A r \in 1..Len(A) : DotFrom(A[r], x, 1) = B[r]

\* The determinant, by expansion along the first row.
Minor(A, col) ==
  [r \in 1..(Len(A) - 1) |->
     [j \in 1..(Len(A) - 1) |-> A[r + 1][IF j < col THEN j ELSE j + 1]]]

RECURSIVE Det(_)
RECURSIVE DetFrom(_, _)
DetFrom(A, col) ==
  IF col > Len(A) THEN Zero
  ELSE LET term == RMul(A[1][col], Det(Minor(A, col)))
       IN  RAdd(IF col % 2 = 1 THEN term ELSE RNeg(term), DetFrom(A, col + 1))
Det(A) == IF Len(A) = 0 THEN One ELSE DetFrom(A, 1)

Finished == gePc \in {"done", "thrown"}

\* The stepwise run agrees with the routine as Circuit::solve uses it.
GeAgrees ==
  Finished =>
    LET r == GaussianElimination(geIn.A, geIn.B)
    IN  r.ok = (gePc = "done") /\ (r.ok => r.x = geX)

\* C9 as claimed: every non-singular system is solved: the routine returns,
\* with A * x = B.
C9_SolvesEveryNonSingularSystem ==
  Finished /\ Det(geIn.A) # Zero => gePc = "done" /\ IsSolution(geIn.A, geX, geIn.B)

\* The pivot step for column i: the row swapped into place holds the largest
\* absolute value of column i among rows i..n, and A and B have had the same
\* two rows exchanged.
PivotStep ==
  gePc = "pivot" /\ gePc' = "check" =>
    \E m \in geI..Len(geA) :
      /\ \A k \in geI..Len(geA) : RLe(RAbs(geA[k][geI]), RAbs(geA[m][geI]))
      /\ geA' = [geA EXCEPT ![geI] = geA[m], ![m] = geA[geI]]
      /\ geB' = [geB EXCEPT ![geI] = geB[m], ![m] = geB[geI]]

\* What holds of a finished run: a returned x solves the system passed in; a
\* throw happened at a pivot below EPSILON; a singular system never returns.
GeFinished ==
  /\ gePc = "done" => IsSolution(geIn.A, geX, geIn.B)
  /\ gePc = "thrown" => RLt(RAbs(geA[geI][geI]), EPSILON)
  /\ Det(geIn.A) = Zero => gePc # "done"
  /\ (gePc = "done" /\ geIn = [A |-> <<<<Zero, One>>, <<One, One>>>>, B |-> <<Rat(2), Rat(3)>>])
       => geX = <<One, Rat(2)>>
  /\ GeAgrees

\* C9 as amended: whenever the routine returns, A * x = B for the system
\* passed in; it throws only when the pivot of some column is below 1e-9 in
\* absolute value, which every singular system and some non-singular ones
\* meet; A = [[0,1],[1,1]], B = [2,3] gives x = [1,2]; the pivot of column i
\* is a row of i..n-1 with the largest absolute value in that column, and the
\* swap is applied to both A and B.
C9_SolvesWhenPivotsAreLarge == [](GeFinished) /\ [][PivotStep]_vars

\* C9 witness: the system [[0,1],[1,1]] x = [2,3], which needs a row swap,
\* has been solved.
C9_Witness ==
  /\ gePc = "done"
  /\ geIn = [A |-> <<<<Zero, One>>, <<One, One>>>>, B |-> <<Rat(2), Rat(3)>>]
  /\ geX = <<One, Rat(2)>>

(***************************************************************************)
(* The voltage-divider scenario: on a fresh Circuit, V1 of value v from A  *)
(* to GND, R1 from A to B, R2 from B to GND, then solve(): SpecDivider.    *)
(***************************************************************************)
DividerSmallR == {Frac(1, 2), Rat(1), Rat(3), Rat(10)}
DividerV == {Rat(10), Rat(-3), Rat(0)}

\* Resistances at the two ends of the range 1e-9..1e9, and one beyond it.
DividerExtremeR == {Rat(1000000000), Frac(1, 1000000000), Rat(2147483647)}

DividerInputs ==
  [v : DividerV, r1 : DividerSmallR, r2 : DividerSmallR]
    \cup {[v |-> Rat(2), r1 |-> r, r2 |-> r] : r \in DividerExtremeR}

InitDivider ==
  /\ CircuitAtRest /\ GeAtRest
  /\ dvIn \in DividerInputs
  /\ dvStep = 0

DividerCall(step, op, r) ==
  /\ dvStep = step
  /\ dvStep' = step + 1
  /\ SetCirc(r.c)
  /\ last' = Call(op, <<>>, r.err, 0, IF op = "solve" THEN r.assembled ELSE FALSE)
  /\ UNCHANGED <<dvIn, loadVars, geVars>>

dvAddV1 ==
  DividerCall(0, "addVoltageSource", AddVoltageSource(Circ, "V1", "A", "GND", dvIn.v))

dvAddR1 ==
  DividerCall(1, "addResistor", AddResistor(Circ, "R1", "A", "B", dvIn.r1))

dvAddR2 ==
  DividerCall(2, "addResistor", AddResistor(Circ, "R2", "B", "GND", dvIn.r2))

dvSolve == DividerCall(3, "solve", Solve(Circ))

NextDivider == dvAddV1 \/ dvAddR1 \/ dvAddR2 \/ dvSolve

SpecDivider == InitDivider /\ [][NextDivider]_vars

(***************************************************************************)
(* Properties of the voltage divider, checked under SpecDivider.           *)
(***************************************************************************)
DividerSolved ==
  /\ last.op = "solve" /\ last.err = "none"
  /\ nodeVoltages[nodeName_to_ID["A"]] = dvIn.v
  /\ nodeVoltages[nodeName_to_ID["B"]] =
       RDiv(RMul(dvIn.v, dvIn.r2), RAdd(dvIn.r1, dvIn.r2))

InRange(r) == RLe(EPSILON, r) /\ RLe(r, Rat(EpsilonDen))

\* C8 as claimed: for every R1, R2 > 0 the divider solves, with V(A) = v
\* and V(B) = v * R2 / (R1 + R2).
C8_DividerSolvesForAllPositiveR ==
  dvStep = 4 => DividerSolved

\* C8 as amended: for 1e-9 <= R1, R2 <= 1e9 the divider solves, with
\* V(A) = v and V(B) = v * R2 / (R1 + R2); v = 10, R1 = R2 = 10 gives
\* V(A) = 10 and V(B) = 5.
C8_DividerSolvesInRange ==
  dvStep = 4 /\ InRange(dvIn.r1) /\ InRange(dvIn.r2) =>
    /\ DividerSolved
    /\ dvIn = [v |-> Rat(10), r1 |-> Rat(10), r2 |-> Rat(10)] =>
         nodeVoltages = (0 :> Zero) @@ (1 :> Rat(10)) @@ (2 :> Rat(5))

\* C8 witness: the divider with v = 10, R1 = R2 = 10 has been solved.
C8_Witness ==
  /\ dvStep = 4 /\ last.op = "solve" /\ last.err = "none"
  /\ dvIn = [v |-> Rat(10), r1 |-> Rat(10), r2 |-> Rat(10)]
  /\ nodeVoltages[1] = Rat(10) /\ nodeVoltages[2] = Rat(5)

=============================================================================
